---- MODULE Spec2Model ----
(***************************************************************************)
(* Model of the model-routing gateway: the chat and video route handlers,  *)
(* the dispatcher generateResponse, and the four backend adapters          *)
(* askWithGemini, askWithDeepSeek, generateImage and generateVideo.        *)
(*                                                                         *)
(* A JavaScript string is a sequence of atoms (words and whitespace        *)
(* characters); a JavaScript value is a tagged record.  One request is     *)
(* followed from the route handler to its HTTP answer; every external      *)
(* call is issued in one step and resolved in a later one.                 *)
(***************************************************************************)
EXTENDS Integers, Sequences, FiniteSets, TLC

(***************************************************************************)
(* JavaScript values                                                       *)
(***************************************************************************)
Undef == [t |-> "undefined"]
Null == [t |-> "null"]
Str(s) == [t |-> "str", v |-> s]
Num(n) == [t |-> "num", v |-> n]
Obj(fields) == [t |-> "obj", f |-> fields]
Arr(items) == [t |-> "arr", v |-> items]
\* The object with no own properties.
NoFields == [x \in {} |-> Undef]

Nullish(x) == x.t \in {"undefined", "null"}

\* ToBoolean(x)
Truthy(x) ==
    CASE x.t \in {"undefined", "null"} -> FALSE
      [] x.t = "str" -> x.v # <<>>
      [] x.t = "num" -> x.v # 0
      [] OTHER -> TRUE

\* a || b
Or(a, b) == IF Truthy(a) THEN a ELSE b

\* o.name for a non-nullish o (o.name on a nullish o throws a TypeError,
\* which the actions test with Nullish before they use Prop).
Prop(o, name) ==
    IF o.t = "obj" /\ name \in DOMAIN o.f THEN o.f[name] ELSE Undef

\* o?.name
OptProp(o, name) == IF Nullish(o) THEN Undef ELSE Prop(o, name)

\* a?.[0]
OptFirst(a) ==
    IF Nullish(a) THEN Undef
    ELSE IF a.t = "arr" /\ Len(a.v) > 0 THEN a.v[1] ELSE Undef

WhiteSpace == {" ", "\n"}

RECURSIVE TrimStart(_)
TrimStart(s) ==
    IF s # <<>> /\ Head(s) \in WhiteSpace THEN TrimStart(Tail(s)) ELSE s

RECURSIVE TrimEnd(_)
TrimEnd(s) ==
    IF s # <<>> /\ s[Len(s)] \in WhiteSpace
    THEN TrimEnd(SubSeq(s, 1, Len(s) - 1))
    ELSE s

\* Mutant of Trim: only leading whitespace is removed.
TrimLeadingOnly(s) == TrimStart(s)

\* String.prototype.trim on the atoms of a string
Trim(s) == TrimEnd(TrimStart(s))

(***************************************************************************)
(* Bounds of the model                                                     *)
(***************************************************************************)
\* Most whitespace atoms put on either side of a routing answer.
MaxPad == 1
\* Most images in an upstream image result.
MaxImages == 2
\* Most requests in flight together.
MaxRequests == 2
\* Most calls of the web client's handleGenerate.
MaxGenerations == 2

(***************************************************************************)
(* Program constants                                                       *)
(***************************************************************************)
\* The names of listOfModels, in catalog order.
CatalogNames ==
    << <<"gemini-2.0-flash">>, <<"deepseek-chat">>, <<"Fal">>, <<"LumaAI">> >>

GeminiLabel == "Gemini 2.0 Flash"
DeepSeekLabel == "deepseek-chat"
ImageLabel == "Stable Diffusion XL"
VideoLabel == "eachlabs"

FalProxyUrl == <<"/api/fal/proxy">>

VARIABLES
    pc,           \* where the request stands
    entry,        \* the entry point that received the request
    env,          \* process.env: the three credentials
    listOfModels, \* the catalog, a module-level array
    falConfig,    \* the configuration of the shared fal client
    chatRequest,  \* the argument of generateResponse
    answer,       \* generateResponse's trimmed routing answer
    caller,       \* who awaits the running adapter: "switch", "catch", "route", "direct"
    adapterReq,   \* the argument of the running adapter
    calls,        \* the external calls: issue and resolve events, in order
    invoked,      \* the adapters invoked, in order
    logs,         \* console output, in order
    escaped,      \* the errors that reached generateResponse, in order
    ret,          \* the value the last adapter returned
    gr,           \* the outcome of generateResponse
    http,         \* the route handler's answer
    received,     \* how req.json() settled: the body the handler was given
    trace,        \* the stages generateResponse has entered, in order
    requests,     \* the requests in flight together, when several are followed
    prompt,       \* page.tsx state: the text of the prompt box
    result,       \* page.tsx state: the text shown in the result panel
    imageUrl,     \* page.tsx state: the image shown in the result panel
    isGenerating, \* page.tsx state
    chatHistory,  \* page.tsx state: the history items, newest first
    showHistory,  \* page.tsx state: the history view is open
    currentRating, \* page.tsx state
    selectedModel, \* page.tsx state
    activeTab,    \* page.tsx state: "text" or "image"
    outstanding,  \* the handleGenerate calls awaiting axios.post, oldest first
    generations,  \* how many times handleGenerate has been called
    resultOf,     \* timestamp of the history item that result was taken from, 0 if none
    imageOf       \* timestamp of the history item that imageUrl was taken from, 0 if none

\* The state of the web client (App of page.tsx) and of the server.
clientVars == << prompt, result, imageUrl, isGenerating, chatHistory, showHistory,
                 currentRating, selectedModel, activeTab, outstanding,
                 generations, resultOf, imageOf >>

serverVars == << pc, entry, env, listOfModels, falConfig, chatRequest, answer,
                 caller, adapterReq, calls, invoked, logs, escaped, ret, gr, http,
                 received, trace, requests >>

vars == << pc, entry, env, listOfModels, falConfig, chatRequest, answer, caller,
           adapterReq, calls, invoked, logs, escaped, ret, gr, http, received,
           trace, requests, prompt, result, imageUrl, isGenerating, chatHistory,
           showHistory, currentRating, selectedModel, activeTab, outstanding,
           generations, resultOf, imageOf >>

\* The part of the state that a run-to-completion segment of the code
\* rewrites, as one record.
Cur ==
    [ pc |-> pc, falConfig |-> falConfig, answer |-> answer, caller |-> caller,
      adapterReq |-> adapterReq, calls |-> calls, invoked |-> invoked,
      logs |-> logs, escaped |-> escaped, ret |-> ret, gr |-> gr, http |-> http,
      chatRequest |-> chatRequest, received |-> received, trace |-> trace ]

Becomes(s) ==
    /\ pc' = s.pc
    /\ falConfig' = s.falConfig
    /\ answer' = s.answer
    /\ caller' = s.caller
    /\ adapterReq' = s.adapterReq
    /\ calls' = s.calls
    /\ invoked' = s.invoked
    /\ logs' = s.logs
    /\ escaped' = s.escaped
    /\ ret' = s.ret
    /\ gr' = s.gr
    /\ http' = s.http
    /\ chatRequest' = s.chatRequest
    /\ received' = s.received
    /\ trace' = s.trace

NoValue == [st |-> "none"]

EnvValues == {Undef, Str(<<" ">>), Str(<<"k">>)}

\* The useState initial values of App.
ClientInit ==
    /\ prompt = Str(<<>>)
    /\ result = Str(<<>>)
    /\ imageUrl = Str(<<>>)
    /\ isGenerating = FALSE
    /\ chatHistory = <<>>
    /\ showHistory = FALSE
    /\ currentRating = Null
    /\ selectedModel = "auto"
    /\ activeTab = "text"
    /\ outstanding = <<>>
    /\ generations = 0
    /\ resultOf = 0
    /\ imageOf = 0

Init ==
    /\ ClientInit
    /\ pc = "idle"
    /\ entry = "none"
    /\ env \in [GEMINI_API : EnvValues, DEEPSEEK_API : EnvValues,
                EACHLABS_API : EnvValues]
    /\ listOfModels = CatalogNames
    /\ falConfig = Undef
    /\ chatRequest = Undef
    /\ answer = Undef
    /\ caller = "none"
    /\ adapterReq = Undef
    /\ calls = <<>>
    /\ invoked = <<>>
    /\ logs = <<>>
    /\ escaped = <<>>
    /\ ret = NoValue
    /\ gr = NoValue
    /\ http = NoValue
    /\ received = NoValue
    /\ trace = <<>>
    /\ requests = <<>>

(***************************************************************************)
(* Events of the call log                                                  *)
(***************************************************************************)
Issue(s, svc, purpose, key, input) ==
    [s EXCEPT !.calls = Append(@, [ev |-> "issue", svc |-> svc,
                                   purpose |-> purpose, key |-> key,
                                   input |-> input])]

Resolved(s, outcome) ==
    [s EXCEPT !.calls = Append(@, [ev |-> "resolve", outcome |-> outcome])]

Log(s, msg, err) == [s EXCEPT !.logs = Append(@, [msg |-> msg, err |-> err])]

\* The error err, thrown by the routing call or by an adapter, reaches
\* generateResponse.
Escapes(s, by, err) ==
    [s EXCEPT !.escaped =
        Append(@, [by |-> by, err |-> err,
                   at |-> IF s.caller = "catch" THEN "catch" ELSE "try"])]

\* generateResponse enters a stage of its handling of the request.
Enter(s, stage) == [s EXCEPT !.trace = Append(@, stage)]

LogText(s, msg, text) ==
    [s EXCEPT !.logs = Append(@, [msg |-> msg, text |-> text])]

LogStatus(s, msg, status) ==
    [s EXCEPT !.logs = Append(@, [msg |-> msg, status |-> status])]

(***************************************************************************)
(* The chat route's tail and generateResponse's exits                      *)
(***************************************************************************)
\* generateResponse returns value; POST answers NextResponse.json({message}).
GrReturn(s, value) ==
    [Enter(s, "Succeeded")
       EXCEPT !.gr = [st |-> "returned", value |-> value],
              !.http = [status |-> 200, message |-> value],
              !.pc = "done"]

\* generateResponse rejects with err; POST's catch logs and answers 500.
GrReject(s, err) ==
    [Log(Enter(s, "Fatal"), "Error while generating response : ", err)
       EXCEPT !.gr = [st |-> "rejected", err |-> err],
              !.http = [status |-> 500,
                        message |-> Str(<<"Internal server error">>)],
              !.pc = "done"]

(***************************************************************************)
(* askWithGemini                                                           *)
(***************************************************************************)
GeminiKey == Or(env.GEMINI_API, Str(<<>>))

\* askWithGemini up to its await of generateContent.
AskWithGemini(s, req, who) ==
    Issue([s EXCEPT !.invoked = Append(@, "askWithGemini"),
                    !.caller = who,
                    !.adapterReq = req,
                    !.pc = "gemini_wait"],
          "gemini", "adapter", GeminiKey, Prop(req, "prompt"))

\* Mutant of GrCatch: the catch block rethrows instead of falling back.
GrCatchRethrows(s, err) ==
    GrReject(s, err)

\* Mutant of GrCatch: the fallback asks with the Router's answer as prompt.
GrCatchAsksWithAnswer(s, err) ==
    AskWithGemini(
        Log(Enter(s, "Fallback-Dispatching"),
            "An error occurred while selecting the model, defaulting to Gemini: ", err),
        Obj([prompt |-> s.answer]), "catch")

\* generateResponse's catch block.
GrCatch(s, err) ==
    AskWithGemini(
        Log(Enter(s, "Fallback-Dispatching"),
            "An error occurred while selecting the model, defaulting to Gemini: ", err),
        s.chatRequest, "catch")

\* Mutant of AdapterThrow: the catch block is itself guarded and retries.
AdapterThrowRetries(s, err) ==
    GrCatch(Escapes(s, s.invoked[Len(s.invoked)], err), err)

\* Mutant of AdapterThrow: the try block has no catch clause.
AdapterThrowPropagates(s, err) ==
    GrReject(Escapes(s, s.invoked[Len(s.invoked)], err), err)

\* An adapter awaited by generateResponse throws err: inside the try block
\* the catch block takes it, inside the catch block nothing does.
AdapterThrow(s, err) ==
    LET s1 == Escapes(s, s.invoked[Len(s.invoked)], err)
    IN IF s.caller = "switch" THEN GrCatch(s1, err) ELSE GrReject(s1, err)

\* Mutant of GeminiAfter: the label reported is that of the adapter the Router
\* chose.
GeminiAfterRouterLabel(s, outcome) ==
    IF ~outcome.ok
    THEN AdapterThrow(s, "GoogleGenerativeAIError")
    ELSE LET value == [response |-> Str(outcome.text),
                       model |-> IF s.invoked[1] = "askWithDeepSeek"
                                 THEN DeepSeekLabel ELSE GeminiLabel]
         IN GrReturn([s EXCEPT !.ret = [st |-> "returned",
                                        by |-> "askWithGemini",
                                        value |-> value]],
                     value)

\* askWithGemini after generateContent: outcome is a rejection or a text.
GeminiAfter(s, outcome) ==
    IF ~outcome.ok
    THEN AdapterThrow(s, "GoogleGenerativeAIError")
    ELSE LET value == [response |-> Str(outcome.text), model |-> GeminiLabel]
         IN GrReturn([s EXCEPT !.ret = [st |-> "returned",
                                        by |-> "askWithGemini",
                                        value |-> value]],
                     value)

(***************************************************************************)
(* askWithDeepSeek                                                         *)
(***************************************************************************)
DeepSeekKey == Or(env.DEEPSEEK_API, Str(<<>>))

\* askWithDeepSeek up to its await of fetch.
AskWithDeepSeek(s, req) ==
    LET s1 == [s EXCEPT !.invoked = Append(@, "askWithDeepSeek"),
                        !.caller = "switch",
                        !.adapterReq = req]
    IN IF ~Truthy(DeepSeekKey)
       THEN AdapterThrow(s1, "DeepSeek API key is missing!")
       ELSE Issue([s1 EXCEPT !.pc = "deepseek_wait"],
                  "openrouter", "adapter", DeepSeekKey, Prop(req, "prompt"))

\* 200..299
StatusOk(status) == status >= 200 /\ status <= 299

\* choice?.message?.content || choice?.message?.reasoning
ResponseContent(completion) ==
    LET choice == OptFirst(Prop(completion, "choices"))
        message == OptProp(choice, "message")
    IN Or(OptProp(message, "content"), OptProp(message, "reasoning"))

\* askWithDeepSeek after fetch: outcome is a rejection or a response with a
\* status and a body that is JSON or not.
DeepSeekAfter(s, outcome) ==
    IF outcome.kind = "reject" THEN AdapterThrow(s, "fetch failed")
    ELSE IF ~StatusOk(outcome.status) THEN AdapterThrow(s, "API Error")
    ELSE IF ~outcome.json THEN AdapterThrow(s, "SyntaxError")
    ELSE IF Nullish(outcome.body) THEN AdapterThrow(s, "TypeError")
    ELSE LET value == [response |-> ResponseContent(outcome.body),
                       model |-> DeepSeekLabel]
         IN GrReturn([s EXCEPT !.ret = [st |-> "returned",
                                        by |-> "askWithDeepSeek",
                                        value |-> value]],
                     value)

(***************************************************************************)
(* generateImage                                                           *)
(***************************************************************************)
\* Mutant of ImageInput: the size defaults are 512.
ImageInputSmall(req) ==
    [ prompt |-> Prop(req, "prompt"),
      negative_prompt |-> Or(Prop(req, "negative_prompt"),
                             Str(<<"low quality, blurry, distorted, deformed">>)),
      width |-> Or(Prop(req, "width"), Num(512)),
      height |-> Or(Prop(req, "height"), Num(512)) ]

\* fal.subscribe's input: the request's fields, or the defaults.
ImageInput(req) ==
    [ prompt |-> Prop(req, "prompt"),
      negative_prompt |-> Or(Prop(req, "negative_prompt"),
                             Str(<<"low quality, blurry, distorted, deformed">>)),
      width |-> Or(Prop(req, "width"), Num(1024)),
      height |-> Or(Prop(req, "height"), Num(1024)) ]

\* Mutant of GenerateImage: fal.subscribe is called with the configuration
\* the client was left with, and the client is configured afterwards.
GenerateImageConfiguresLate(s, req, who) ==
    LET s1 == [s EXCEPT !.invoked = Append(@, "generateImage"),
                        !.caller = who,
                        !.adapterReq = req,
                        !.falConfig = Obj([proxyUrl |-> Str(FalProxyUrl)]),
                        !.pc = "image_wait"]
    IN Issue(s1, "fal", "adapter", s.falConfig, ImageInput(req))

\* generateImage up to its await of fal.subscribe.
\* The call goes where the shared client's configuration says when
\* fal.subscribe is called.
GenerateImage(s, req, who) ==
    LET s1 == [s EXCEPT !.invoked = Append(@, "generateImage"),
                        !.caller = who,
                        !.adapterReq = req,
                        !.falConfig = Obj([proxyUrl |-> Str(FalProxyUrl)]),
                        !.pc = "image_wait"]
    IN Issue(s1, "fal", "adapter", s1.falConfig, ImageInput(req))

\* generateImage returns value to the switch of generateResponse, which
\* wraps it, or to a direct caller.
ImageReturn(s, value) ==
    LET s1 == [s EXCEPT !.ret = [st |-> "returned", by |-> "generateImage",
                                 value |-> value]]
    IN IF s.caller = "switch"
       THEN GrReturn(s1, [response |-> value.imageUrl, model |-> value.model])
       ELSE [s1 EXCEPT !.pc = "done"]

\* Mutant of ImageCatch: the error is logged and thrown again.
ImageCatchRethrows(s, err) ==
    AdapterThrow(Log(s, "Error generating image:", err), err)

\* generateImage's catch block.
ImageCatch(s, err) ==
    ImageReturn(Log(s, "Error generating image:", err),
                [imageUrl |-> Null, model |-> ImageLabel])

\* images.length === 0
EmptyArray(x) == x.t = "arr" /\ Len(x.v) = 0

\* images[0]
First(x) == IF x.t = "arr" /\ Len(x.v) > 0 THEN x.v[1] ELSE Undef

\* Mutant of ImageAfter: the URL returned is that of the last image.
ImageAfterLast(s, outcome) ==
    IF outcome.kind = "reject" THEN ImageCatch(s, "fal error")
    ELSE IF Nullish(outcome.result) THEN ImageCatch(s, "TypeError")
    ELSE LET images == Prop(outcome.result, "images")
         IN IF ~Truthy(images) \/ EmptyArray(images)
            THEN ImageCatch(s, "No images were generated")
            ELSE IF images.t # "arr" \/ Nullish(images.v[Len(images.v)])
            THEN ImageCatch(s, "TypeError")
            ELSE ImageReturn(s, [imageUrl |-> Prop(images.v[Len(images.v)], "url"),
                                 model |-> ImageLabel])

\* generateImage after fal.subscribe: outcome is a rejection or a result.
ImageAfter(s, outcome) ==
    IF outcome.kind = "reject" THEN ImageCatch(s, "fal error")
    ELSE IF Nullish(outcome.result) THEN ImageCatch(s, "TypeError")
    ELSE LET images == Prop(outcome.result, "images")
         IN IF ~Truthy(images) \/ EmptyArray(images)
            THEN ImageCatch(s, "No images were generated")
            ELSE IF Nullish(First(images)) THEN ImageCatch(s, "TypeError")
            ELSE ImageReturn(s, [imageUrl |-> Prop(First(images), "url"),
                                 model |-> ImageLabel])

(***************************************************************************)
(* generateVideo                                                           *)
(***************************************************************************)
\* x?.trim()
OptTrim(x) == IF Nullish(x) THEN Undef ELSE Str(Trim(x.v))

VideoKey == Or(OptTrim(env.EACHLABS_API), Str(<<>>))

VideoInput(req) ==
    [ prompt |-> Prop(req, "prompt"),
      negative_prompt |-> Or(Prop(req, "negative_prompt"),
                             Str(<<"low quality, blurry, distorted">>)),
      width |-> Or(Prop(req, "width"), Num(1024)),
      height |-> Or(Prop(req, "height"), Num(1024)),
      duration |-> Or(Prop(req, "duration"), Num(5)) ]

\* generateVideo returns value to the switch of generateResponse, which
\* wraps it, or to the video route, which answers with it.
VideoReturn(s, value) ==
    LET s1 == [s EXCEPT !.ret = [st |-> "returned", by |-> "generateVideo",
                                 value |-> value]]
    IN IF s.caller = "switch"
       THEN GrReturn(s1, [response |-> value.videoUrl, model |-> value.model])
       ELSE [s1 EXCEPT !.http = [status |-> 200, message |-> value],
                       !.pc = "done"]

\* generateVideo's catch block.
VideoCatch(s, err) ==
    VideoReturn(Log(s, "Error generating video:", err),
                [videoUrl |-> Null, model |-> VideoLabel])

\* generateVideo up to its await of fetch.
GenerateVideo(s, req, who) ==
    LET s1 == [s EXCEPT !.invoked = Append(@, "generateVideo"),
                        !.caller = who,
                        !.adapterReq = req]
    IN IF ~Truthy(VideoKey)
       THEN VideoCatch(s1, "Eachlabs API key is missing! Please check your .env file.")
       ELSE Issue([Log(s1, "Using Eachlabs API Key:", "Loaded")
                     EXCEPT !.pc = "video_wait"],
                  "eachlabs", "adapter", VideoKey, VideoInput(req))

\* Mutant of VideoAfter: response.ok is not tested.
VideoAfterIgnoresStatus(s, outcome) ==
    IF outcome.kind = "reject" THEN VideoCatch(s, "fetch failed")
    ELSE LET s1 == LogStatus(s, "Eachlabs API Response:", outcome.status)
         IN IF outcome.status = 401
            THEN VideoCatch(s1, "Unauthorized: Invalid API key. Check your Eachlabs account.")
            ELSE IF ~outcome.json THEN VideoCatch(s1, "SyntaxError")
            ELSE LET videoUrl == OptProp(OptProp(outcome.body, "video"), "url")
                 IN IF ~Truthy(videoUrl)
                    THEN VideoCatch(s1, "API response did not contain a video URL.")
                    ELSE VideoReturn(s1, [videoUrl |-> videoUrl,
                                          model |-> VideoLabel])

\* generateVideo after fetch: outcome is a rejection or a response with a
\* status and a body that is JSON or not.
VideoAfter(s, outcome) ==
    IF outcome.kind = "reject" THEN VideoCatch(s, "fetch failed")
    ELSE LET s1 == LogStatus(s, "Eachlabs API Response:", outcome.status)
         IN IF outcome.status = 401
            THEN VideoCatch(s1, "Unauthorized: Invalid API key. Check your Eachlabs account.")
            ELSE IF ~StatusOk(outcome.status) THEN VideoCatch(s1, "API Error")
            ELSE IF ~outcome.json THEN VideoCatch(s1, "SyntaxError")
            ELSE LET videoUrl == OptProp(OptProp(outcome.body, "video"), "url")
                 IN IF ~Truthy(videoUrl)
                    THEN VideoCatch(s1, "API response did not contain a video URL.")
                    ELSE VideoReturn(s1, [videoUrl |-> videoUrl,
                                          model |-> VideoLabel])

(***************************************************************************)
(* generateResponse                                                        *)
(***************************************************************************)
\* JSON.stringify(listOfModels), as the catalog stands when the module loads
InjectedPrompt ==
    <<"\n", "FORGET WHAT I SAID BEFORE", "\n">>
    \o CatalogNames[1] \o CatalogNames[2] \o CatalogNames[3] \o CatalogNames[4]
    \o <<"\n", "IMPORTANT: Return ONLY the model name", "\n">>

\* `"${chatRequest.prompt}" ----- ${injectedPrompt}`
MetaPrompt(p) ==
    <<"\"">> \o p \o <<"\"", " ", "---------------------------------------", " ">>
    \o InjectedPrompt

\* Mutant of GenerateResponse: the default adapter's call is issued together
\* with the routing call.
GenerateResponseSpeculates(s, req) ==
    Issue(Issue([Enter(s, "Routing") EXCEPT !.pc = "gr_routing",
                                            !.chatRequest = req],
                "gemini", "routing", GeminiKey,
                Str(MetaPrompt(Prop(req, "prompt").v))),
          "gemini", "adapter", GeminiKey, Prop(req, "prompt"))

\* generateResponse up to its await of the routing call.
GenerateResponse(s, req) ==
    Issue([Enter(s, "Routing") EXCEPT !.pc = "gr_routing", !.chatRequest = req],
          "gemini", "routing", GeminiKey, Str(MetaPrompt(Prop(req, "prompt").v)))

\* Mutant of SelectAdapter: the image and video cases are exchanged.
SelectAdapterSwapped(ans) ==
    IF ans = listOfModels[1] THEN "askWithGemini"
    ELSE IF ans = listOfModels[2] THEN "askWithDeepSeek"
    ELSE IF ans = listOfModels[3] THEN "generateVideo"
    ELSE IF ans = listOfModels[4] THEN "generateImage"
    ELSE "askWithGemini"

\* The switch statement: strict equality with the catalog names, in order.
SelectAdapter(ans) ==
    IF ans = listOfModels[1] THEN "askWithGemini"
    ELSE IF ans = listOfModels[2] THEN "askWithDeepSeek"
    ELSE IF ans = listOfModels[3] THEN "generateImage"
    ELSE IF ans = listOfModels[4] THEN "generateVideo"
    ELSE "askWithGemini"

Dispatch(s, ans) ==
    LET sel == SelectAdapter(ans)
        promptOnly == Obj([prompt |-> Prop(s.chatRequest, "prompt")])
        s1 == Enter(s, "Dispatching")
    IN CASE sel = "askWithGemini" -> AskWithGemini(s1, s.chatRequest, "switch")
         [] sel = "askWithDeepSeek" -> AskWithDeepSeek(s1, s.chatRequest)
         [] sel = "generateImage" -> GenerateImage(s1, promptOnly, "switch")
         [] sel = "generateVideo" -> GenerateVideo(s1, promptOnly, "switch")

\* Mutant of RoutingAfter: a failed routing call is made once more before the
\* catch block runs.
RoutingAfterRetriesOnce(s, outcome) ==
    IF ~outcome.ok
    THEN IF Len(s.calls) <= 2
         THEN GenerateResponse(Enter(s, "Routing-Failed"), s.chatRequest)
         ELSE GrCatch(Escapes(Enter(s, "Routing-Failed"), "routing",
                              "GoogleGenerativeAIError"),
                      "GoogleGenerativeAIError")
    ELSE LET ans == Trim(outcome.text)
         IN Dispatch(LogText([s EXCEPT !.answer = Str(ans)],
                             "Chosen model: ", ans),
                     ans)

\* generateResponse after the routing call: outcome is a rejection (of
\* generateContent or of text()) or a text.
RoutingAfter(s, outcome) ==
    IF ~outcome.ok
    THEN GrCatch(Escapes(Enter(s, "Routing-Failed"), "routing",
                         "GoogleGenerativeAIError"),
                 "GoogleGenerativeAIError")
    ELSE LET ans == Trim(outcome.text)
         IN Dispatch(LogText([s EXCEPT !.answer = Str(ans)],
                             "Chosen model: ", ans),
                     ans)

(***************************************************************************)
(* Route handlers                                                          *)
(***************************************************************************)
\* z.object({...}).safeParse(body).success: prompt is a string and every
\* optional field is absent or of its type.
SchemaAccepts(body, optional) ==
    /\ body.t = "obj"
    /\ Prop(body, "prompt").t = "str"
    /\ \A k \in DOMAIN optional : Prop(body, k).t \in {"undefined", optional[k]}

\* parsedSchema.data: the fields of the schema that the body has.
SchemaData(body, optional) ==
    Obj([k \in DOMAIN body.f \cap ({"prompt"} \cup DOMAIN optional) |-> body.f[k]])

ChatOptional == [k \in {} |-> "str"]

VideoOptional ==
    [negative_prompt |-> "str", width |-> "num", height |-> "num",
     duration |-> "num"]

\* Mutant of BadRequest: a validation failure is answered like a server error.
BadRequestAnswers500(s) ==
    [s EXCEPT !.http = [status |-> 500,
                        message |-> Str(<<"Internal server error">>)],
              !.pc = "done"]

BadRequest(s) ==
    [s EXCEPT !.http = [status |-> 400,
                        message |-> Str(<<"Invalid Inputs!!">>)],
              !.pc = "done"]

ServerError(s, msg, err) ==
    [Log(s, msg, err)
       EXCEPT !.http = [status |-> 500,
                        message |-> Str(<<"Internal server error">>)],
              !.pc = "done"]

\* The chat handler once req.json() has settled: it validates the body and
\* calls generateResponse, which runs up to the routing call.
ChatHandler(s, read) ==
    LET s1 == [s EXCEPT !.received = read]
    IN IF ~read.ok
       THEN ServerError(s1, "Error while generating response : ", "SyntaxError")
       ELSE IF ~SchemaAccepts(read.body, ChatOptional)
       THEN BadRequest(s1)
       ELSE GenerateResponse(
                s1, Obj([prompt |->
                          Prop(SchemaData(read.body, ChatOptional), "prompt")]))

\* The video handler once req.json() has settled: it validates the body and
\* calls generateVideo, which runs up to its fetch.
VideoHandler(s, read) ==
    LET s1 == [s EXCEPT !.received = read]
    IN IF ~read.ok
       THEN ServerError(s1, "Error while generating video: ", "SyntaxError")
       ELSE IF ~SchemaAccepts(read.body, VideoOptional)
       THEN BadRequest(s1)
       ELSE GenerateVideo(s1, SchemaData(read.body, VideoOptional), "route")

(***************************************************************************)
(* Inputs: request bodies and the answers of the external services         *)
(***************************************************************************)
RECURSIVE Rep(_, _)
Rep(atom, n) == IF n = 0 THEN <<>> ELSE <<atom>> \o Rep(atom, n - 1)

Cat == Str(<<"cat">>)

ChatBodies ==
    { Null, Obj(NoFields), Obj([prompt |-> Num(7)]), Obj([prompt |-> Str(<<>>)]),
      Obj([prompt |-> Cat]), Obj([prompt |-> Cat, model |-> Str(<<"auto">>)]) }

VideoBodies ==
    { Null, Obj(NoFields), Obj([prompt |-> Cat]), Obj([prompt |-> Str(<<>>)]),
      Obj([prompt |-> Cat, width |-> Str(<<"wide">>)]),
      Obj([prompt |-> Cat, negative_prompt |-> Str(<<>>), width |-> Num(0),
           height |-> Num(512), duration |-> Num(0)]),
      Obj([prompt |-> Cat, negative_prompt |-> Str(<<"ugly">>), width |-> Num(512),
           height |-> Num(768), duration |-> Num(10), seed |-> Num(1)]) }

ImageRequests ==
    { Obj([prompt |-> Cat]),
      Obj([prompt |-> Cat, negative_prompt |-> Str(<<>>), width |-> Num(0),
           height |-> Num(512)]),
      Obj([prompt |-> Cat, negative_prompt |-> Str(<<"ugly">>), width |-> Num(512),
           height |-> Num(768)]) }

BodyReads == {[ok |-> FALSE]} \cup {[ok |-> TRUE, body |-> b] : b \in ChatBodies}

VideoBodyReads ==
    {[ok |-> FALSE]} \cup {[ok |-> TRUE, body |-> b] : b \in VideoBodies}

\* What the routing model may answer: a catalog name, a name in another
\* letter case, a name inside prose, another name, nothing; with whitespace
\* around it.
RouterCores ==
    { CatalogNames[i] : i \in 1..4 }
    \cup { <<"fal">>, <<"Use", " ", "Fal">>, <<"gpt-4">>, <<>> }

RouterTexts ==
    { Rep(" ", l) \o core \o Rep("\n", r) :
        l \in 0..MaxPad, r \in 0..MaxPad, core \in RouterCores }

RoutingOutcomes ==
    {[ok |-> FALSE]} \cup {[ok |-> TRUE, text |-> t] : t \in RouterTexts}

GeminiOutcomes ==
    {[ok |-> FALSE]} \cup {[ok |-> TRUE, text |-> t] : t \in {<<"answer">>, <<>>}}

Statuses == {200, 401, 500}

Message(fields) == Obj([choices |-> Arr(<<Obj([message |-> Obj(fields)])>>)])

DeepSeekBodies ==
    { Null, Obj(NoFields), Obj([choices |-> Arr(<<>>)]),
      Obj([choices |-> Arr(<<Obj(NoFields)>>)]),
      Message(NoFields),
      Message([content |-> Str(<<"code">>)]),
      Message([content |-> Str(<<>>), reasoning |-> Str(<<"because">>)]),
      Message([content |-> Null]) }

EachlabsBodies ==
    { Null, Obj(NoFields), Obj([video |-> Obj(NoFields)]),
      Obj([video |-> Obj([url |-> Str(<<>>)])]),
      Obj([video |-> Obj([url |-> Str(<<"v.mp4">>)])]) }

FetchOutcomes(bodies) ==
    {[kind |-> "reject"]}
    \cup {[kind |-> "response", status |-> st, json |-> FALSE, body |-> Undef] :
            st \in Statuses}
    \cup {[kind |-> "response", status |-> st, json |-> TRUE, body |-> b] :
            st \in Statuses, b \in bodies}

Images ==
    { Null, Obj(NoFields), Obj([url |-> Str(<<"a.png">>)]),
      Obj([url |-> Str(<<"b.png">>)]) }

RECURSIVE SeqsUpTo(_, _)
SeqsUpTo(S, n) ==
    IF n = 0 THEN {<<>>}
    ELSE LET shorter == SeqsUpTo(S, n - 1)
         IN shorter \cup {Append(q, x) : q \in shorter, x \in S}

FalOutcomes ==
    {[kind |-> "reject"]}
    \cup {[kind |-> "result", result |-> r] : r \in {Null, Obj(NoFields)}}
    \cup {[kind |-> "result", result |-> Obj([images |-> Arr(q)])] :
            q \in SeqsUpTo(Images, MaxImages)}

(***************************************************************************)
(* Actions: one per run-to-completion segment of the code                  *)
(***************************************************************************)
\* POST /api/chat arrives; the handler awaits req.json().
ChatPOST ==
    /\ pc = "idle"
    /\ pc' = "chat_read"
    /\ entry' = "chat"
    /\ UNCHANGED << env, listOfModels, falConfig, chatRequest, answer, caller,
                    adapterReq, calls, invoked, logs, escaped, ret, gr, http,
                    received, trace, requests, clientVars >>

\* req.json() settles: the chat handler validates and calls generateResponse,
\* which runs up to the routing call.
ChatBodyRead ==
    /\ pc = "chat_read"
    /\ \E read \in BodyReads : Becomes(ChatHandler(Cur, read))
    /\ UNCHANGED << entry, env, listOfModels, requests, clientVars >>

\* The routing call settles: generateResponse runs its switch, or its catch
\* block, up to the next await.
RoutingResolved ==
    /\ pc = "gr_routing"
    /\ \E outcome \in RoutingOutcomes :
         Becomes(RoutingAfter(Resolved(Cur, outcome), outcome))
    /\ UNCHANGED << entry, env, listOfModels, requests, clientVars >>

\* generateContent of askWithGemini settles.
GeminiResolved ==
    /\ pc = "gemini_wait"
    /\ \E outcome \in GeminiOutcomes :
         Becomes(GeminiAfter(Resolved(Cur, outcome), outcome))
    /\ UNCHANGED << entry, env, listOfModels, requests, clientVars >>

\* fetch of askWithDeepSeek settles, with the body read.
DeepSeekResolved ==
    /\ pc = "deepseek_wait"
    /\ \E outcome \in FetchOutcomes(DeepSeekBodies) :
         Becomes(DeepSeekAfter(Resolved(Cur, outcome), outcome))
    /\ UNCHANGED << entry, env, listOfModels, requests, clientVars >>

\* fal.subscribe of generateImage settles.
ImageResolved ==
    /\ pc = "image_wait"
    /\ \E outcome \in FalOutcomes :
         Becomes(ImageAfter(Resolved(Cur, outcome), outcome))
    /\ UNCHANGED << entry, env, listOfModels, requests, clientVars >>

\* fetch of generateVideo settles, with the body read.
VideoResolved ==
    /\ pc = "video_wait"
    /\ \E outcome \in FetchOutcomes(EachlabsBodies) :
         Becomes(VideoAfter(Resolved(Cur, outcome), outcome))
    /\ UNCHANGED << entry, env, listOfModels, requests, clientVars >>

\* POST /api/video arrives; the handler awaits req.json().
VideoPOST ==
    /\ pc = "idle"
    /\ pc' = "video_read"
    /\ entry' = "video"
    /\ UNCHANGED << env, listOfModels, falConfig, chatRequest, answer, caller,
                    adapterReq, calls, invoked, logs, escaped, ret, gr, http,
                    received, trace, requests, clientVars >>

\* req.json() settles: the video handler validates and calls generateVideo,
\* which runs up to its fetch.
VideoBodyRead ==
    /\ pc = "video_read"
    /\ \E read \in VideoBodyReads : Becomes(VideoHandler(Cur, read))
    /\ UNCHANGED << entry, env, listOfModels, requests, clientVars >>

\* generateImage is called with an ImageRequest by a caller outside
\* generateResponse, and runs up to fal.subscribe.
ImageCall ==
    /\ pc = "idle"
    /\ entry' = "image"
    /\ \E req \in ImageRequests : Becomes(GenerateImage(Cur, req, "direct"))
    /\ UNCHANGED << env, listOfModels, requests, clientVars >>

Next ==
    \/ ChatPOST
    \/ ChatBodyRead
    \/ RoutingResolved
    \/ GeminiResolved
    \/ DeepSeekResolved
    \/ ImageResolved
    \/ VideoResolved
    \/ VideoPOST
    \/ VideoBodyRead
    \/ ImageCall

Spec == Init /\ [][Next]_vars

\* Every external call that is awaited settles in the end: it returns or
\* raises.
SpecLive ==
    /\ Init
    /\ [][Next]_vars
    /\ WF_vars(RoutingResolved)
    /\ WF_vars(GeminiResolved)
    /\ WF_vars(DeepSeekResolved)
    /\ WF_vars(ImageResolved)
    /\ WF_vars(VideoResolved)

(***************************************************************************)
(* Several chat requests in flight together.  The server runs one segment  *)
(* of code at a time and another request can run only where the first      *)
(* awaits, so the requests interleave segment by segment.  Each request    *)
(* has its own record; process.env, listOfModels and the fal client's      *)
(* configuration are shared.                                               *)
(***************************************************************************)
\* A request's own state, before the handler is entered.
FreshRequest ==
    [ pc |-> "idle", answer |-> Undef, caller |-> "none", adapterReq |-> Undef,
      calls |-> <<>>, invoked |-> <<>>, logs |-> <<>>, escaped |-> <<>>,
      ret |-> NoValue, gr |-> NoValue, http |-> NoValue, chatRequest |-> Undef,
      received |-> NoValue, trace |-> <<>> ]

\* A request's own state together with the fal configuration it finds, and
\* apart from the one it leaves.
WithFal(q, config) ==
    [k \in DOMAIN q \cup {"falConfig"} |->
        IF k = "falConfig" THEN config ELSE q[k]]
Own(s) == [k \in DOMAIN s \ {"falConfig"} |-> s[k]]

\* The segment of code that input starts in a chat request at s.pc: the
\* arrival of the request, its body, or the settlement of the call awaited.
Segment(s, input) ==
    CASE s.pc = "idle" -> [s EXCEPT !.pc = "chat_read"]
      [] s.pc = "chat_read" -> ChatHandler(s, input)
      [] s.pc = "gr_routing" -> RoutingAfter(Resolved(s, input), input)
      [] s.pc = "gemini_wait" -> GeminiAfter(Resolved(s, input), input)
      [] s.pc = "deepseek_wait" -> DeepSeekAfter(Resolved(s, input), input)
      [] s.pc = "image_wait" -> ImageAfter(Resolved(s, input), input)
      [] s.pc = "video_wait" -> VideoAfter(Resolved(s, input), input)

\* The prompts of the requests, one each.
ConcPrompts == <<"cat", "dog", "emu", "fox">>

ConcBody(r) == [ok |-> TRUE, body |-> Obj([prompt |-> Str(<<ConcPrompts[r]>>)])]

\* The answers of the external services when several requests are followed:
\* a failure and a success of each call.
ConcOutcomes(at) ==
    CASE at = "gr_routing" ->
           {[ok |-> FALSE]} \cup {[ok |-> TRUE, text |-> CatalogNames[i]] : i \in 1..4}
      [] at = "gemini_wait" -> {[ok |-> FALSE], [ok |-> TRUE, text |-> <<"answer">>]}
      [] at = "deepseek_wait" ->
           {[kind |-> "reject"],
            [kind |-> "response", status |-> 200, json |-> TRUE,
             body |-> Message([content |-> Str(<<"code">>)])]}
      [] at = "image_wait" ->
           {[kind |-> "reject"],
            [kind |-> "result",
             result |-> Obj([images |-> Arr(<<Obj([url |-> Str(<<"a.png">>)])>>)])]}
      [] at = "video_wait" ->
           {[kind |-> "response", status |-> 401, json |-> FALSE, body |-> Undef],
            [kind |-> "response", status |-> 200, json |-> TRUE,
             body |-> Obj([video |-> Obj([url |-> Str(<<"v.mp4">>)])])]}
      [] OTHER -> {}

InitConc ==
    /\ ClientInit
    /\ pc = "idle"
    /\ entry = "none"
    /\ env \in [GEMINI_API : {Str(<<"k">>)}, DEEPSEEK_API : {Undef, Str(<<"k">>)},
                EACHLABS_API : {Str(<<" ">>), Str(<<"k">>)}]
    /\ listOfModels = CatalogNames
    /\ falConfig = Undef
    /\ chatRequest = Undef
    /\ answer = Undef
    /\ caller = "none"
    /\ adapterReq = Undef
    /\ calls = <<>>
    /\ invoked = <<>>
    /\ logs = <<>>
    /\ escaped = <<>>
    /\ ret = NoValue
    /\ gr = NoValue
    /\ http = NoValue
    /\ received = NoValue
    /\ trace = <<>>
    /\ requests = [r \in 1..MaxRequests |-> FreshRequest]

\* Request r runs the segment that input starts.
Runs(r, input) ==
    LET after == Segment(WithFal(requests[r], falConfig), input)
    IN /\ requests' = [requests EXCEPT ![r] = Own(after)]
       /\ falConfig' = after.falConfig
       /\ UNCHANGED << pc, entry, env, listOfModels, chatRequest, answer, caller,
                       adapterReq, calls, invoked, logs, escaped, ret, gr, http,
                       received, trace, clientVars >>

\* POST /api/chat arrives for request r.
ConcPOST(r) ==
    /\ requests[r].pc = "idle"
    /\ Runs(r, NoValue)

\* req.json() of request r settles.
ConcBodyRead(r) ==
    /\ requests[r].pc = "chat_read"
    /\ Runs(r, ConcBody(r))

\* Mutant of ConcSettled: generateVideo stores the trimmed key in process.env.
ConcSettledStoresKey(r) ==
    /\ \E outcome \in ConcOutcomes(requests[r].pc) :
         LET after == Segment(WithFal(requests[r], falConfig), outcome)
         IN /\ requests' = [requests EXCEPT ![r] = Own(after)]
            /\ falConfig' = after.falConfig
            /\ env' = IF "generateVideo" \in {after.invoked[i] : i \in 1..Len(after.invoked)}
                      THEN [env EXCEPT !.EACHLABS_API = VideoKey]
                      ELSE env
    /\ UNCHANGED << pc, entry, listOfModels, chatRequest, answer, caller,
                    adapterReq, calls, invoked, logs, escaped, ret, gr, http,
                    received, trace, clientVars >>

\* The call request r awaits settles.
ConcSettled(r) ==
    \E outcome \in ConcOutcomes(requests[r].pc) : Runs(r, outcome)

NextConc ==
    \E r \in 1..MaxRequests :
        \/ ConcPOST(r)
        \/ ConcBodyRead(r)
        \/ ConcSettled(r)

SpecConc == InitConc /\ [][NextConc]_vars

(***************************************************************************)
(* The web client: App of page.tsx.  Each event handler runs to its end,   *)
(* or to its await, and React renders the new state before the next event. *)
(* The server is what answers axios.post.                                  *)
(***************************************************************************)
\* What the user may type in the prompt box.
TypedPrompts == {Str(<<" ">>), Str(<<"cat">>), Str(<<"dog">>)}

\* aiModels of CustomSelectionButton.
ModelIds == {"auto", "gemini-2-flash", "deepseek-chat", "image-gen"}

\* The stars of the rating row.
Scores == {1, 5}

\* response.data.message of /api/chat and of /api/image.
ChatMessages ==
    { [response |-> Str(<<"answer">>), model |-> "Gemini 2.0 Flash"],
      [response |-> Null, model |-> "eachlabs"] }

ImageMessages ==
    { [imageUrl |-> Str(<<"a.png">>), model |-> "Stable Diffusion XL"],
      [imageUrl |-> Null, model |-> "Stable Diffusion XL"] }

Without(q, i) == SubSeq(q, 1, i - 1) \o SubSeq(q, i + 1, Len(q))

\* Date.now() of a new history item: later than that of every item before.
Now == Len(chatHistory) + 1

\* Mutant of GenerateEnabled: the button is not disabled while generating.
GenerateEnabledWhileGenerating ==
    /\ ~showHistory
    /\ Trim(prompt.v) # <<>>

\* The generate button is rendered and not disabled.
GenerateEnabled ==
    /\ ~showHistory
    /\ ~(Trim(prompt.v) = <<>> \/ isGenerating)

\* The rating row is rendered: a result is displayed.
RatingShown ==
    /\ ~showHistory
    /\ IF activeTab = "text" THEN Truthy(result) ELSE Truthy(imageUrl)

\* onChange of the prompt box.
TypePrompt ==
    /\ ~showHistory
    /\ \E text \in TypedPrompts \ {prompt} : prompt' = text
    /\ UNCHANGED << result, imageUrl, isGenerating, chatHistory, showHistory,
                    currentRating, selectedModel, activeTab, outstanding,
                    generations, resultOf, imageOf, serverVars >>

\* handleModelSelect, and the effect that follows selectedModel.
SelectModel ==
    /\ ~showHistory
    /\ \E modelId \in ModelIds \ {selectedModel} :
         /\ selectedModel' = modelId
         /\ activeTab' = IF modelId = "image-gen" THEN "image" ELSE "text"
    /\ UNCHANGED << prompt, result, imageUrl, isGenerating, chatHistory,
                    showHistory, currentRating, outstanding, generations,
                    resultOf, imageOf, serverVars >>

\* The History button, and Close of the history view.
ToggleHistory ==
    /\ showHistory' = ~showHistory
    /\ UNCHANGED << prompt, result, imageUrl, isGenerating, chatHistory,
                    currentRating, selectedModel, activeTab, outstanding,
                    generations, resultOf, imageOf, serverVars >>

\* onClick of a history item, and the effect that follows selectedModel.
SelectHistoryItem ==
    /\ showHistory
    /\ \E index \in 1..Len(chatHistory) :
         LET item == chatHistory[index]
         IN /\ prompt' = item.prompt
            /\ result' = item.result
            /\ resultOf' = item.timestamp
            /\ IF Truthy(item.imageUrl)
               THEN imageUrl' = item.imageUrl /\ imageOf' = item.timestamp
               ELSE UNCHANGED << imageUrl, imageOf >>
            /\ activeTab' = item.type
            /\ selectedModel' = IF item.type = "image" THEN "image-gen" ELSE "auto"
    /\ showHistory' = FALSE
    /\ UNCHANGED << isGenerating, chatHistory, currentRating, outstanding,
                    generations, serverVars >>

\* handleGenerate up to its await of axios.post.
ClickGenerate ==
    /\ GenerateEnabled
    /\ generations < MaxGenerations
    /\ Trim(prompt.v) # <<>>
    /\ isGenerating' = TRUE
    /\ result' = Str(<<>>)
    /\ imageUrl' = Str(<<>>)
    /\ currentRating' = Null
    /\ resultOf' = 0
    /\ imageOf' = 0
    /\ outstanding' =
         Append(outstanding,
                [prompt |-> prompt,
                 api |-> IF activeTab = "text" \/ selectedModel # "image-gen"
                         THEN "/api/chat" ELSE "/api/image"])
    /\ generations' = generations + 1
    /\ UNCHANGED << prompt, chatHistory, showHistory, selectedModel, activeTab,
                    serverVars >>

\* handleGenerate after /api/chat answered: the try block, then finally.
ChatAnswered ==
    /\ \E i \in 1..Len(outstanding), message \in ChatMessages :
         /\ outstanding[i].api = "/api/chat"
         /\ result' = message.response
         /\ resultOf' = Now
         /\ chatHistory' =
              << [prompt |-> outstanding[i].prompt, result |-> message.response,
                  model |-> message.model, timestamp |-> Now, type |-> "text",
                  imageUrl |-> Undef, rating |-> Undef] >> \o chatHistory
         /\ outstanding' = Without(outstanding, i)
    /\ isGenerating' = FALSE
    /\ UNCHANGED << prompt, imageUrl, showHistory, currentRating, selectedModel,
                    activeTab, generations, imageOf, serverVars >>

\* handleGenerate after /api/image answered: the try block, then finally.
ImageAnswered ==
    /\ \E i \in 1..Len(outstanding), message \in ImageMessages :
         /\ outstanding[i].api = "/api/image"
         /\ IF Truthy(message.imageUrl)
            THEN /\ imageUrl' = message.imageUrl
                 /\ imageOf' = Now
                 /\ chatHistory' =
                      << [prompt |-> outstanding[i].prompt, result |-> Str(<<>>),
                          model |-> message.model, timestamp |-> Now,
                          type |-> "image", imageUrl |-> message.imageUrl,
                          rating |-> Undef] >> \o chatHistory
                 /\ UNCHANGED << result, resultOf >>
            ELSE /\ result' = Str(<<"Failed to generate image. Please try again with a different prompt.">>)
                 /\ resultOf' = 0
                 /\ UNCHANGED << imageUrl, imageOf, chatHistory >>
         /\ outstanding' = Without(outstanding, i)
    /\ isGenerating' = FALSE
    /\ UNCHANGED << prompt, showHistory, currentRating, selectedModel, activeTab,
                    generations, serverVars >>

\* Mutant of GenerationRejected: there is no finally block.
GenerationRejectedNoFinally ==
    /\ \E i \in 1..Len(outstanding) : outstanding' = Without(outstanding, i)
    /\ result' = Str(<<"An error occurred while generating response!!">>)
    /\ resultOf' = 0
    /\ UNCHANGED << prompt, imageUrl, isGenerating, chatHistory, showHistory,
                    currentRating, selectedModel, activeTab, generations, imageOf,
                    serverVars >>

\* handleGenerate after axios.post rejected (a status outside 2xx, no
\* answer) or the answer had no message: the catch block, then finally.
GenerationRejected ==
    /\ \E i \in 1..Len(outstanding) : outstanding' = Without(outstanding, i)
    /\ result' = Str(<<"An error occurred while generating response!!">>)
    /\ resultOf' = 0
    /\ isGenerating' = FALSE
    /\ UNCHANGED << prompt, imageUrl, chatHistory, showHistory, currentRating,
                    selectedModel, activeTab, generations, imageOf, serverVars >>

\* handleRating(score), from a star of the rating row.
HandleRating ==
    /\ RatingShown
    /\ \E score \in Scores :
         /\ currentRating' = Num(score)
         /\ chatHistory' =
              IF Len(chatHistory) = 0 THEN chatHistory
              ELSE [chatHistory EXCEPT ![1].rating = [score |-> score]]
    /\ UNCHANGED << prompt, result, imageUrl, isGenerating, showHistory,
                    selectedModel, activeTab, outstanding, generations, resultOf,
                    imageOf, serverVars >>

InitClient ==
    /\ ClientInit
    /\ pc = "idle"
    /\ entry = "none"
    /\ env = [GEMINI_API |-> Str(<<"k">>), DEEPSEEK_API |-> Str(<<"k">>),
              EACHLABS_API |-> Str(<<"k">>)]
    /\ listOfModels = CatalogNames
    /\ falConfig = Undef
    /\ chatRequest = Undef
    /\ answer = Undef
    /\ caller = "none"
    /\ adapterReq = Undef
    /\ calls = <<>>
    /\ invoked = <<>>
    /\ logs = <<>>
    /\ escaped = <<>>
    /\ ret = NoValue
    /\ gr = NoValue
    /\ http = NoValue
    /\ received = NoValue
    /\ trace = <<>>
    /\ requests = <<>>

NextClient ==
    \/ TypePrompt
    \/ SelectModel
    \/ ToggleHistory
    \/ SelectHistoryItem
    \/ ClickGenerate
    \/ ChatAnswered
    \/ ImageAnswered
    \/ GenerationRejected
    \/ HandleRating

SpecClient == InitClient /\ [][NextClient]_vars

(***************************************************************************)
(* Properties                                                              *)
(***************************************************************************)
Adapters == <<"askWithGemini", "askWithDeepSeek", "generateImage", "generateVideo">>

LabelOf(adapter) ==
    CASE adapter = "askWithGemini" -> "Gemini 2.0 Flash"
      [] adapter = "askWithDeepSeek" -> "deepseek-chat"
      [] adapter = "generateImage" -> "Stable Diffusion XL"
      [] adapter = "generateVideo" -> "eachlabs"

Last(q) == q[Len(q)]

\* generateResponse has been called.
GrCalled == chatRequest # Undef

\* The routing call has settled; RoutingOutcome is how.
RoutingSettled == GrCalled /\ Len(calls) >= 2
RoutingOutcome == calls[2].outcome

\* The routing answer, trimmed, is a catalog name.
RoutingMatches ==
    RoutingOutcome.ok /\ \E i \in 1..4 : Trim(RoutingOutcome.text) = CatalogNames[i]

\* The adapter calls issued so far, without the routing call.
AdapterIssues ==
    SelectSeq(calls, LAMBDA e : e.ev = "issue" /\ e.purpose = "adapter")

\* C1: whenever generateResponse has returned, the model field of the result
\* is the fixed label of the adapter that was invoked last and returned the
\* result; after an error reached generateResponse (the fallback ran), that
\* label is "Gemini 2.0 Flash", whatever adapter the Router chose.
C1_ModelNamesProducingAdapter ==
    gr.st = "returned" =>
        /\ ret.st = "returned"
        /\ ret.by = Last(invoked)
        /\ gr.value.model = LabelOf(Last(invoked))
        /\ gr.value.model \in {"Gemini 2.0 Flash", "deepseek-chat",
                               "Stable Diffusion XL", "eachlabs"}
        /\ (escaped # <<>> => /\ Last(invoked) = "askWithGemini"
                              /\ gr.value.model = "Gemini 2.0 Flash")

\* The Router chose askWithDeepSeek, it threw, and the fallback's result was
\* returned.
C1_Witness ==
    /\ gr.st = "returned"
    /\ invoked = <<"askWithDeepSeek", "askWithGemini">>
    /\ RoutingOutcome.ok /\ Trim(RoutingOutcome.text) = <<"deepseek-chat">>
    /\ gr.value.model = "Gemini 2.0 Flash"

\* C2: when the routing call has failed or its answer matches no catalog
\* name, generateResponse has invoked askWithGemini first, on the request
\* itself; no error of the routing call rejects generateResponse; and when
\* that askWithGemini call has succeeded, generateResponse has returned its
\* text with model "Gemini 2.0 Flash".
C2_RoutingFailureDefaultsToGemini ==
    (RoutingSettled /\ ~RoutingMatches) =>
        /\ invoked # <<>> /\ invoked[1] = "askWithGemini"
        /\ Len(calls) >= 3
        /\ calls[3].ev = "issue" /\ calls[3].svc = "gemini"
        /\ calls[3].purpose = "adapter"
        /\ calls[3].input = chatRequest.f.prompt
        /\ (gr.st = "rejected" => Last(escaped).by = "askWithGemini")
        /\ (Len(calls) >= 4 /\ calls[4].outcome.ok =>
                /\ gr.st = "returned"
                /\ gr.value = [response |-> Str(calls[4].outcome.text),
                               model |-> "Gemini 2.0 Flash"]
                /\ http.status = 200)

\* The routing call was rejected and the fallback's answer was returned.
C2_Witness ==
    /\ RoutingSettled /\ ~RoutingOutcome.ok
    /\ Len(calls) = 4 /\ calls[4].outcome.ok
    /\ gr.st = "returned"

\* C3: when the routing answer is exactly a catalog name, the first adapter
\* generateResponse invokes is the adapter of that catalog entry, and the
\* first adapter call issued, if any, goes to that adapter's service.
C3_ExactNameSelectsItsAdapter ==
    \A i \in 1..4 :
        (RoutingSettled /\ RoutingOutcome.ok /\ RoutingOutcome.text = CatalogNames[i]) =>
            /\ invoked # <<>> /\ invoked[1] = Adapters[i]
            /\ (AdapterIssues # <<>> /\ Len(escaped) = 0 =>
                    AdapterIssues[1].svc =
                        <<"gemini", "openrouter", "fal", "eachlabs">>[i])

\* The routing answer was "LumaAI" and generateVideo issued its fetch.
C3_Witness ==
    /\ RoutingSettled /\ RoutingOutcome.ok /\ RoutingOutcome.text = <<"LumaAI">>
    /\ invoked = <<"generateVideo">>
    /\ AdapterIssues # <<>> /\ AdapterIssues[1].svc = "eachlabs"

\* C4: when the adapter selected by the switch has thrown, generateResponse
\* has invoked askWithGemini exactly once more, on the original request; when
\* a fallback call has thrown, no further adapter is invoked and
\* generateResponse is rejected with that error.
C4_SingleFallbackThenFatal ==
    /\ (escaped # <<>> /\ escaped[1].by # "routing") =>
            /\ escaped[1].at = "try"
            /\ invoked = <<escaped[1].by, "askWithGemini">>
            /\ Len(AdapterIssues) <= 2
            /\ Last(AdapterIssues).svc = "gemini"
            /\ Last(AdapterIssues).input = chatRequest.f.prompt
            /\ adapterReq = chatRequest
    /\ \A i \in 1..Len(escaped) :
            escaped[i].at = "catch" =>
                /\ i = Len(escaped)
                /\ escaped[i].by = "askWithGemini"
                /\ gr = [st |-> "rejected", err |-> escaped[i].err]
                /\ pc = "done"
                /\ Len(invoked) <= 2

\* The selected adapter threw, the fallback threw, generateResponse rejected.
C4_Witness ==
    /\ Len(escaped) = 2
    /\ escaped[1].by = "askWithDeepSeek"
    /\ invoked = <<"askWithDeepSeek", "askWithGemini">>
    /\ gr.st = "rejected"

Range(q) == {q[i] : i \in 1..Len(q)}

\* The adapter call to service svc has settled; OutcomeOf(svc) is how.
IssuedTo(svc) ==
    {i \in 1..Len(calls) :
        calls[i].ev = "issue" /\ calls[i].purpose = "adapter" /\ calls[i].svc = svc}
HasSettled(svc) == \E i \in IssuedTo(svc) : i < Len(calls)
OutcomeOf(svc) == calls[(CHOOSE i \in IssuedTo(svc) : i < Len(calls)) + 1].outcome

\* The upstream call failed: it was rejected or answered a non-success status.
UpstreamFailed(o) ==
    \/ o.kind = "reject"
    \/ o.kind = "response" /\ (o.status < 200 \/ o.status > 299)

\* The Router selected the image (video) adapter and its upstream call failed.
SelectedUpstreamFailed(adapter, svc) ==
    /\ RoutingSettled
    /\ invoked # <<>> /\ invoked[1] = adapter
    /\ HasSettled(svc) /\ UpstreamFailed(OutcomeOf(svc))

\* C5, as claimed: when the Router has selected the image or the video adapter
\* and its upstream call has failed, the fallback askWithGemini has been
\* invoked and a returned result carries model "Gemini 2.0 Flash".
C5_FailedMediaFallsBackToGemini ==
    \A i \in 3..4 :
        SelectedUpstreamFailed(Adapters[i], <<"", "", "fal", "eachlabs">>[i]) =>
            /\ invoked = <<Adapters[i], "askWithGemini">>
            /\ (gr.st = "returned" => gr.value.model = "Gemini 2.0 Flash")

\* C5, amended: when the Router has selected the image or the video adapter
\* and its upstream call has failed, the adapter has caught the failure
\* itself: no error reaches generateResponse, askWithGemini is not invoked,
\* and generateResponse has returned a null response with that adapter's own
\* label.
C5_FailedMediaReturnsNull ==
    \A i \in 3..4 :
        SelectedUpstreamFailed(Adapters[i], <<"", "", "fal", "eachlabs">>[i]) =>
            /\ invoked = <<Adapters[i]>>
            /\ escaped = <<>>
            /\ IssuedTo("gemini") = {}
            /\ gr = [st |-> "returned",
                     value |-> [response |-> Null, model |-> LabelOf(Adapters[i])]]
            /\ http.status = 200

\* The Router answered "Fal", fal.subscribe was rejected, and the request ended.
C5_Witness ==
    /\ SelectedUpstreamFailed("generateImage", "fal")
    /\ OutcomeOf("fal").kind = "reject"
    /\ pc = "done"

\* The images of a fal result, <<>> when it has none.
ImagesOf(o) ==
    IF /\ o.kind = "result"
       /\ o.result.t = "obj"
       /\ "images" \in DOMAIN o.result.f
       /\ o.result.f.images.t = "arr"
    THEN o.result.f.images.v
    ELSE <<>>

\* C6: once fal.subscribe has settled, generateImage has returned (nothing
\* escaped it) a result with model "Stable Diffusion XL"; imageUrl is null
\* when the call was rejected or the result has no images; and a non-null
\* imageUrl is the url of the first of at least one image.
C6_ImageNeverThrows ==
    HasSettled("fal") =>
        LET imgs == ImagesOf(OutcomeOf("fal"))
        IN /\ ret.st = "returned" /\ ret.by = "generateImage"
           /\ ret.value.model = "Stable Diffusion XL"
           /\ \A i \in 1..Len(escaped) : escaped[i].by # "generateImage"
           /\ pc = "done"
           /\ (imgs = <<>> => ret.value.imageUrl = Null)
           /\ (ret.value.imageUrl # Null =>
                  /\ Len(imgs) >= 1
                  /\ imgs[1].t = "obj"
                  /\ ret.value.imageUrl =
                        IF "url" \in DOMAIN imgs[1].f THEN imgs[1].f.url ELSE Undef)

\* Two images came back and the first one's url was returned.
C6_Witness ==
    /\ HasSettled("fal")
    /\ Len(ImagesOf(OutcomeOf("fal"))) = 2
    /\ ImagesOf(OutcomeOf("fal"))[2] = Obj([url |-> Str(<<"a.png">>)])
    /\ ret.value.imageUrl = Str(<<"b.png">>)

\* generateVideo has been invoked and has finished.
VideoFinished == "generateVideo" \in Range(invoked) /\ pc # "video_wait"

\* The body of a fetch outcome has video.url.
HasVideoUrl(o) ==
    /\ o.json
    /\ o.body.t = "obj"
    /\ "video" \in DOMAIN o.body.f
    /\ o.body.f.video.t = "obj"
    /\ "url" \in DOMAIN o.body.f.video.f

\* C7: once generateVideo has finished it has returned (nothing escaped it) a
\* result with model "eachlabs"; videoUrl is null when the credential is
\* missing, the fetch was rejected, the status was 401 or another
\* non-success status, or the body lacks video.url; a non-null videoUrl is
\* the video.url of a successful response.
C7_VideoNeverThrows ==
    VideoFinished =>
        /\ ret.st = "returned" /\ ret.by = "generateVideo"
        /\ ret.value.model = "eachlabs"
        /\ \A i \in 1..Len(escaped) : escaped[i].by # "generateVideo"
        /\ pc = "done"
        /\ (env.EACHLABS_API = Undef =>
                ret.value.videoUrl = Null /\ IssuedTo("eachlabs") = {})
        /\ (HasSettled("eachlabs") =>
                LET o == OutcomeOf("eachlabs")
                IN (\/ o.kind = "reject"
                    \/ o.status = 401
                    \/ o.status < 200 \/ o.status > 299
                    \/ ~HasVideoUrl(o)) => ret.value.videoUrl = Null)
        /\ (ret.value.videoUrl # Null =>
                /\ HasSettled("eachlabs")
                /\ OutcomeOf("eachlabs").kind = "response"
                /\ OutcomeOf("eachlabs").status \in 200..299
                /\ HasVideoUrl(OutcomeOf("eachlabs"))
                /\ ret.value.videoUrl = OutcomeOf("eachlabs").body.f.video.f.url)
        /\ (entry = "video" => http = [status |-> 200, message |-> ret.value])

\* The video route's upstream answered 401 and the route answered the null
\* result.
C7_Witness ==
    /\ entry = "video"
    /\ HasSettled("eachlabs")
    /\ OutcomeOf("eachlabs").kind = "response"
    /\ OutcomeOf("eachlabs").status = 401
    /\ http = [status |-> 200,
               message |-> [videoUrl |-> Null, model |-> "eachlabs"]]

\* C8: in an execution of generateResponse the external calls alternate issue
\* and settlement, so that none is issued while another is outstanding; there
\* are at most three; the first, and only the first, is the routing call; at
\* most one goes to the selected adapter and at most one more to Gemini as the
\* fallback, and the fallback is entered only after the routing call or the
\* selected adapter has failed.
C8_CallsSequentialAtMostThree ==
    GrCalled =>
        /\ \A i \in 1..Len(calls) :
               calls[i].ev = IF i % 2 = 1 THEN "issue" ELSE "resolve"
        /\ Len(calls) >= 1 /\ Len(calls) <= 6
        /\ calls[1].purpose = "routing" /\ calls[1].svc = "gemini"
        /\ \A i \in 2..Len(calls) :
               calls[i].ev = "issue" => calls[i].purpose = "adapter"
        /\ Len(AdapterIssues) <= 2
        /\ Len(invoked) <= 2
        /\ (Len(calls) >= 2 => invoked # <<>>)
        /\ (Len(AdapterIssues) = 2 => AdapterIssues[2].svc = "gemini")
        /\ (caller = "catch" =>
               /\ Last(invoked) = "askWithGemini"
               /\ escaped # <<>>
               /\ escaped[1].by \in {"routing", invoked[1]}
               /\ (escaped[1].by = "routing" => ~calls[2].outcome.ok)
               /\ (Len(invoked) = 2 <=> escaped[1].by # "routing"))
        /\ (Len(invoked) = 2 => caller = "catch")

\* Three calls were made: routing, then openrouter, which failed, then Gemini.
C8_Witness ==
    /\ GrCalled
    /\ Len(calls) = 6
    /\ calls[3].svc = "openrouter"
    /\ calls[5].svc = "gemini"
    /\ pc = "done"

\* Every askWithGemini call that has settled has succeeded.
EveryGeminiCallSucceeded ==
    \A i \in IssuedTo("gemini") : i < Len(calls) => calls[i + 1].outcome.ok

\* C9: generateResponse is rejected, and the chat route then answers 500,
\* only when askWithGemini was invoked by the catch block and its call
\* failed; once generateResponse has been called the route answers 500 in no
\* other case; and while every askWithGemini call succeeds generateResponse
\* is not rejected.
C9_FatalOnlyWhenFallbackFails ==
    /\ gr.st = "rejected" =>
            /\ http.status = 500
            /\ caller = "catch"
            /\ Last(invoked) = "askWithGemini"
            /\ Len(calls) >= 4
            /\ calls[Len(calls) - 1].ev = "issue"
            /\ calls[Len(calls) - 1].svc = "gemini"
            /\ calls[Len(calls) - 1].purpose = "adapter"
            /\ ~Last(calls).outcome.ok
    /\ (GrCalled /\ pc = "done" /\ http.status = 500) => gr.st = "rejected"
    /\ EveryGeminiCallSucceeded => gr.st # "rejected"
    /\ (GrCalled /\ pc = "done" /\ EveryGeminiCallSucceeded) =>
            gr.st = "returned" /\ http.status = 200

\* The routing call failed, the fallback failed, the route answered 500.
C9_Witness ==
    /\ gr.st = "rejected"
    /\ Len(escaped) = 2 /\ escaped[1].by = "routing"
    /\ http.status = 500

\* The credential of each service that takes one.
CredentialOf(svc) ==
    CASE svc = "gemini" -> "GEMINI_API"
      [] svc = "openrouter" -> "DEEPSEEK_API"
      [] svc = "eachlabs" -> "EACHLABS_API"

\* The adapter of service svc reported a missing key.
MissingKeyReported(svc) ==
    \E i \in 1..Len(logs) :
        /\ "err" \in DOMAIN logs[i]
        /\ logs[i].err \in
             CASE svc = "gemini" -> {"Gemini API key is missing!"}
               [] svc = "openrouter" -> {"DeepSeek API key is missing!"}
               [] svc = "eachlabs" ->
                    {"Eachlabs API key is missing! Please check your .env file."}

\* C10, as claimed: no adapter call is issued to a service whose credential
\* is absent from process.env; the adapter, once invoked, has reported the
\* missing key instead.
C10_NoCallWithoutCredential ==
    \A i \in 1..3 :
        LET svc == <<"gemini", "openrouter", "eachlabs">>[i]
            adapter == <<"askWithGemini", "askWithDeepSeek", "generateVideo">>[i]
        IN (env[CredentialOf(svc)] = Undef /\ adapter \in Range(invoked)) =>
               /\ IssuedTo(svc) = {}
               /\ MissingKeyReported(svc)

\* The body of an openrouter outcome has a first choice with message content.
HasContent(o) ==
    /\ o.json
    /\ o.body.t = "obj"
    /\ "choices" \in DOMAIN o.body.f
    /\ o.body.f.choices.t = "arr"
    /\ Len(o.body.f.choices.v) >= 1
    /\ o.body.f.choices.v[1].t = "obj"
    /\ "message" \in DOMAIN o.body.f.choices.v[1].f
    /\ o.body.f.choices.v[1].f.message.t = "obj"
    /\ "content" \in DOMAIN o.body.f.choices.v[1].f.message.f
    /\ o.body.f.choices.v[1].f.message.f.content.t = "str"

\* C11, as claimed: when the fetch of askWithDeepSeek has been answered with
\* a non-success status, or with a success status and a body that has no
\* choices or whose first choice has no message content, askWithDeepSeek has
\* thrown, the fallback askWithGemini has been invoked, and no result of
\* askWithDeepSeek has been returned.
C11_DeepSeekThrowsOnBadResponse ==
    (HasSettled("openrouter") /\ OutcomeOf("openrouter").kind = "response"
       /\ (\/ OutcomeOf("openrouter").status < 200
           \/ OutcomeOf("openrouter").status > 299
           \/ ~HasContent(OutcomeOf("openrouter")))) =>
        /\ escaped # <<>> /\ escaped[1].by = "askWithDeepSeek"
        /\ invoked = <<"askWithDeepSeek", "askWithGemini">>
        /\ (gr.st = "returned" => gr.value.model # "deepseek-chat")

\* The values the adapter named by produced from the outcome o of its call.
ProducedBy(by, o) ==
    CASE by = "askWithGemini" -> {Str(o.text)}
      [] by = "askWithDeepSeek" ->
           IF HasContent(o)
           THEN {o.body.f.choices.v[1].f.message.f[k] :
                   k \in {"content", "reasoning"}
                         \cap DOMAIN o.body.f.choices.v[1].f.message.f}
           ELSE {}
      [] by = "generateImage" ->
           IF ImagesOf(o) # <<>> /\ ImagesOf(o)[1].t = "obj"
              /\ "url" \in DOMAIN ImagesOf(o)[1].f
           THEN {ImagesOf(o)[1].f.url}
           ELSE {}
      [] by = "generateVideo" ->
           IF o.kind = "response" /\ HasVideoUrl(o)
           THEN {o.body.f.video.f.url}
           ELSE {}

\* C12, as claimed: the response field of every result generateResponse has
\* returned is null or a string, and a string is the whole value that the
\* call of the adapter invoked last produced.
C12_PayloadNullOrAdapterValue ==
    gr.st = "returned" =>
        /\ gr.value.response.t \in {"null", "str"}
        /\ (gr.value.response # Null =>
                /\ Last(calls).ev = "resolve"
                /\ gr.value.response \in
                       ProducedBy(Last(invoked), Last(calls).outcome))

\* The bodies among the inputs that each route's schema must refuse: not an
\* object, no prompt, a prompt or an optional field of the wrong type.
RefusedBodies ==
    [ chat |-> {Null, Obj(NoFields), Obj([prompt |-> Num(7)])},
      video |-> {Null, Obj(NoFields),
                 Obj([prompt |-> Str(<<"cat">>), width |-> Str(<<"wide">>)])} ]

\* The handler was given a body that fails its schema.
BodyRefused ==
    /\ entry \in {"chat", "video"}
    /\ received # NoValue /\ received.ok
    /\ received.body \in RefusedBodies[entry]

\* C13: in the chat and video handlers a body that fails validation is
\* answered 400 "Invalid Inputs!!" with no adapter invoked and no call made,
\* and 400 is answered in no other case; a rejection of generateResponse is
\* answered 500 "Internal server error"; and a handler that has finished has
\* answered, with 200, 400 or 500.
C13_RoutesAnswer400And500 ==
    entry \in {"chat", "video"} =>
        /\ (pc \notin {"idle", "chat_read", "video_read"} /\ BodyRefused) =>
                /\ http = [status |-> 400, message |-> Str(<<"Invalid Inputs!!">>)]
                /\ pc = "done"
                /\ invoked = <<>> /\ calls = <<>> /\ ~GrCalled
        /\ (http # NoValue /\ http.status = 400) => BodyRefused
        /\ gr.st = "rejected" =>
                /\ http = [status |-> 500,
                           message |-> Str(<<"Internal server error">>)]
                /\ pc = "done"
        /\ (received # NoValue /\ ~received.ok) =>
                http = [status |-> 500,
                        message |-> Str(<<"Internal server error">>)]
        /\ pc = "done" => (http # NoValue /\ http.status \in {200, 400, 500})

\* The video route was given a width that is not a number and answered 400.
C13_Witness ==
    /\ entry = "video"
    /\ received # NoValue /\ received.ok
    /\ received.body = Obj([prompt |-> Str(<<"cat">>), width |-> Str(<<"wide">>)])
    /\ http # NoValue /\ http.status = 400

\* C14, as claimed: the prompt handed to generateResponse by the chat route,
\* and to generateVideo by the video route, is never the empty string.
C14_NoEmptyPromptReachesCore ==
    /\ GrCalled => chatRequest.f.prompt.v # <<>>
    /\ (entry = "video" /\ invoked # <<>>) => adapterReq.f.prompt.v # <<>>

\* C15: no step of any of the requests in flight together changes the
\* catalog or the credentials; the catalog is the one the module was loaded
\* with.
C15_CatalogAndCredentialsUntouched ==
    [][/\ listOfModels' = listOfModels
       /\ env' = env
       /\ listOfModels = CatalogNames]_vars

\* Two requests have each run generateVideo with a key that trim() changes.
C15_Witness ==
    /\ requests # <<>>
    /\ env.EACHLABS_API = Str(<<" ">>)
    /\ \A r \in 1..2 :
          requests[r].pc = "done" /\ requests[r].invoked = <<"generateVideo">>

\* What request q was given: its arrival, its body, and the settlements of
\* its external calls, in order.
InputsOf(q) ==
    LET settled == SelectSeq(q.calls, LAMBDA c : c.ev = "resolve")
    IN (IF q.pc = "idle" THEN <<>> ELSE <<NoValue>>)
       \o (IF q.received = NoValue THEN <<>> ELSE <<q.received>>)
       \o [i \in 1..Len(settled) |-> settled[i].outcome]

RECURSIVE Replay(_, _)
Replay(s, inputs) ==
    IF inputs = <<>> THEN s
    ELSE Replay(Segment(s, Head(inputs)), Tail(inputs))

\* Request q run alone on a freshly loaded module and given the same inputs.
Alone(q) == Own(Replay(WithFal(FreshRequest, Undef), InputsOf(q)))

\* C20: whatever the interleaving, each request's external calls (service,
\* credential or configuration, input), the adapters it invoked, its result
\* and its HTTP answer are those of the same request run alone and given
\* the same answers by the external services.
C20_RequestsBehaveAsAlone ==
    \A r \in DOMAIN requests : requests[r] = Alone(requests[r])

\* Request 2 ran generateImage to its end while request 1 awaited
\* fal.subscribe.
C20_Witness ==
    /\ requests # <<>>
    /\ requests[1].pc = "image_wait"
    /\ requests[2].pc = "done"
    /\ requests[2].invoked = <<"generateImage">>
    /\ requests[2].gr.st = "returned"

\* The ways through generateResponse.
Paths ==
    { <<"Routing", "Dispatching", "Succeeded">>,
      <<"Routing", "Dispatching", "Fallback-Dispatching", "Succeeded">>,
      <<"Routing", "Dispatching", "Fallback-Dispatching", "Fatal">>,
      <<"Routing", "Routing-Failed", "Fallback-Dispatching", "Succeeded">>,
      <<"Routing", "Routing-Failed", "Fallback-Dispatching", "Fatal">> }

IsPrefix(a, b) == Len(a) <= Len(b) /\ SubSeq(b, 1, Len(a)) = a

OnPath == \E p \in Paths : IsPrefix(trace, p)

Terminated == trace \in Paths

\* C16: when every awaited external call settles, every request given to
\* generateResponse ends on one of the five paths, with generateResponse
\* returned at Succeeded and rejected at Fatal; meanwhile the stages entered
\* are the beginning of such a path, so no stage is entered twice.
C16_EveryRequestEndsOnOnePath ==
    /\ [](OnPath)
    /\ [](Terminated <=> gr.st \in {"returned", "rejected"})
    /\ [](Terminated =>
            /\ pc = "done"
            /\ gr.st = (IF Last(trace) = "Succeeded" THEN "returned" ELSE "rejected"))
    /\ (GrCalled ~> Terminated)

\* The selected adapter threw, then the fallback call threw.
C16_Witness ==
    trace = <<"Routing", "Dispatching", "Fallback-Dispatching", "Fatal">>

\* fal.subscribe's and the eachlabs fetch's input for a request of a prompt
\* only.
DefaultsFor(svc, p) ==
    IF svc = "fal"
    THEN [ prompt |-> p,
           negative_prompt |-> Str(<<"low quality, blurry, distorted, deformed">>),
           width |-> Num(1024), height |-> Num(1024) ]
    ELSE [ prompt |-> p,
           negative_prompt |-> Str(<<"low quality, blurry, distorted">>),
           width |-> Num(1024), height |-> Num(1024), duration |-> Num(5) ]

\* C17: when generateResponse has invoked generateImage or generateVideo, the
\* request it passed holds the original prompt and nothing else, and the
\* upstream call, if issued, carries that prompt and the adapter's defaults.
C17_MediaRoutedWithDefaults ==
    (GrCalled /\ invoked # <<>> /\ invoked[1] \in {"generateImage", "generateVideo"}) =>
        /\ adapterReq = Obj([prompt |-> received.body.f.prompt])
        /\ \A svc \in {"fal", "eachlabs"} :
             \A i \in IssuedTo(svc) :
                calls[i].input = DefaultsFor(svc, received.body.f.prompt)

\* The chat route's request was routed to generateVideo, whose fetch was
\* issued.
C17_Witness ==
    /\ entry = "chat"
    /\ invoked = <<"generateVideo">>
    /\ IssuedTo("eachlabs") # {}

\* text with at most MaxPad spaces before it and MaxPad line ends after it.
Padded(text) ==
    { Rep(" ", l) \o text \o Rep("\n", r) : l \in 0..MaxPad, r \in 0..MaxPad }

\* C18: a routing answer that is a catalog name with whitespace around it
\* selects that entry's adapter; an answer in another letter case, or with a
\* catalog name inside other words, selects askWithGemini through the switch
\* and no error reaches the catch block from the selection.
C18_ExactMatchAfterTrim ==
    (RoutingSettled /\ RoutingOutcome.ok) =>
        /\ \A i \in 1..4 :
             RoutingOutcome.text \in Padded(CatalogNames[i]) =>
                invoked # <<>> /\ invoked[1] = Adapters[i]
        /\ \A other \in {<<"fal">>, <<"Use", " ", "Fal">>} :
             RoutingOutcome.text \in Padded(other) =>
                /\ invoked # <<>> /\ invoked[1] = "askWithGemini"
                /\ trace[2] = "Dispatching"
                /\ \A i \in 1..Len(escaped) : escaped[i].by # "routing"

\* The routing answer was " Fal" followed by a line end.
C18_Witness ==
    /\ RoutingSettled /\ RoutingOutcome.ok
    /\ RoutingOutcome.text = <<" ", "Fal", "\n">>
    /\ invoked = <<"generateImage">>

\* The prompt that the adapter call issued as calls[i] carries.
PromptSent(i) ==
    IF calls[i].svc \in {"fal", "eachlabs"} THEN calls[i].input.prompt
    ELSE calls[i].input

\* C19: the routing call carries the meta-prompt; every adapter call of
\* generateResponse, the fallback call included, carries the prompt of the
\* request body, whatever the Router answered; the request passed to the
\* fallback is the request generateResponse was given.
C19_AdaptersGetOriginalPrompt ==
    GrCalled =>
        /\ calls[1].input =
             Str(<<"\"">> \o received.body.f.prompt.v
                 \o <<"\"", " ", "---------------------------------------", " ",
                      "\n", "FORGET WHAT I SAID BEFORE", "\n",
                      "gemini-2.0-flash", "deepseek-chat", "Fal", "LumaAI",
                      "\n", "IMPORTANT: Return ONLY the model name", "\n">>)
        /\ \A i \in 1..Len(calls) :
             (calls[i].ev = "issue" /\ calls[i].purpose = "adapter") =>
                /\ PromptSent(i) = received.body.f.prompt
                /\ PromptSent(i) # calls[1].input
        /\ caller = "catch" => adapterReq = Obj([prompt |-> received.body.f.prompt])

\* askWithDeepSeek threw after the Router answered "deepseek-chat", and the
\* fallback call was issued.
C19_Witness ==
    /\ GrCalled
    /\ answer = Str(<<"deepseek-chat">>)
    /\ caller = "catch"
    /\ Len(AdapterIssues) >= 1
    /\ Last(AdapterIssues).svc = "gemini"

\* The messages that the code of each adapter prints when it fails.
ReportsOf ==
    [ askWithGemini |-> {},
      askWithDeepSeek |-> {},
      generateImage |-> {"Error generating image:"},
      generateVideo |-> {"Error generating video:"} ]

\* The adapter named by has printed the error err.
Reported(by, err) ==
    \E j \in 1..Len(logs) :
        /\ "err" \in DOMAIN logs[j]
        /\ logs[j].msg \in ReportsOf[by]
        /\ logs[j].err = err

\* C21, as claimed: every error thrown by an adapter to generateResponse has
\* been printed by that adapter, a fallback call has then been issued all the
\* same, and an image or video adapter that returned its null result has
\* printed its error.
C21_FailedAdapterReports ==
    /\ \A i \in 1..Len(escaped) :
         escaped[i].by \in Range(Adapters) =>
            /\ Reported(escaped[i].by, escaped[i].err)
            /\ escaped[i].at = "try" => Len(invoked) = 2
    /\ (ret.st = "returned" /\ ret.by = "generateImage"
          /\ ret.value.imageUrl = Null) =>
            \E j \in 1..Len(logs) : logs[j].msg \in ReportsOf["generateImage"]
    /\ (ret.st = "returned" /\ ret.by = "generateVideo"
          /\ ret.value.videoUrl = Null) =>
            \E j \in 1..Len(logs) : logs[j].msg \in ReportsOf["generateVideo"]

\* C22, as claimed: in the input of every fal.subscribe call and every
\* eachlabs fetch, each optional field holds the value the caller supplied,
\* 0 and the empty string included, and the adapter's default only when the
\* caller's request has no such field.
C22_SuppliedFieldsForwarded ==
    \A svc \in {"fal", "eachlabs"} :
        \A i \in IssuedTo(svc) :
            \A field \in DOMAIN calls[i].input \ {"prompt"} :
                calls[i].input[field] =
                    IF field \in DOMAIN adapterReq.f
                    THEN adapterReq.f[field]
                    ELSE DefaultsFor(svc, adapterReq.f.prompt)[field]

\* C23: isGenerating is true exactly while a handleGenerate call awaits its
\* answer, at most one call does, and the generate button is enabled only
\* while none does.
C23_GeneratingWhileOutstanding ==
    /\ isGenerating <=> outstanding # <<>>
    /\ Len(outstanding) <= 1
    /\ GenerateEnabled => outstanding = <<>>

\* A second generation was rejected; the first one left its history item.
C23_Witness ==
    /\ generations = 2
    /\ Len(chatHistory) = 1
    /\ result = Str(<<"An error occurred while generating response!!">>)
    /\ ~isGenerating /\ outstanding = <<>>

\* The timestamp of the history item whose result is displayed, 0 when what
\* is displayed is no history item's result.
Shown == IF activeTab = "text" THEN resultOf ELSE imageOf

\* C24, as claimed: a step that sets the rating to a score records it on the
\* history item whose result is displayed and changes no other item, and
\* changes nothing when no item's result is displayed or the history is
\* empty.
C24_RatingGoesToDisplayedItem ==
    [][\A score \in Scores :
         (currentRating' = Num(score) /\ currentRating # Num(score)) =>
            /\ Len(chatHistory') = Len(chatHistory)
            /\ \A i \in 1..Len(chatHistory) :
                 chatHistory'[i] =
                    IF chatHistory[i].timestamp = Shown
                    THEN [chatHistory[i] EXCEPT !.rating = [score |-> score]]
                    ELSE chatHistory[i]]_vars

====
